---- MODULE Spec2Model ----
(***************************************************************************)
(* A model of the numerical core of the truck B-rep kernel:                *)
(*   - truck-meshalgo/src/filters/optimizing.rs: the OptimizingFilter      *)
(*     implementation for PolygonMesh (remove_unused_attrs,                *)
(*     remove_degenerate_faces, put_together_same_attrs);                  *)
(*   - truck-geotrait/src/algo/curve.rs: search_nearest_parameter,         *)
(*     search_parameter and parameter_division.                            *)
(*                                                                         *)
(* Conventions.  Indices stored in vertices are 0-based as in the source;  *)
(* TLA+ sequences are 1-based, so attribute i is arr[i + 1].  A real       *)
(* number is an exact rational <<n, d>> with d > 0: every input of the     *)
(* mesh filters and of the searches is a small integer or a dyadic         *)
(* fraction.  On these the f64 operations of the mesh filters are exact;   *)
(* the Newton iterates of the searches are rounded by f64 far below        *)
(* TOLERANCE, which no comparison of the model comes near.  The parameters *)
(* of parameter_division are f64 values <<e, k>> = 2^e * (1 + k * 2^-52),  *)
(* and their midpoint is rounded as f64 rounds it.                         *)
(***************************************************************************)
EXTENDS Integers, Sequences, FiniteSets, TLC

VARIABLES
    positions,   \* PolygonMesh.attributes.positions : Vec<Point3>
    uv_coords,   \* PolygonMesh.attributes.uv_coords : Vec<Vector2>
    normals,     \* PolygonMesh.attributes.normals   : Vec<Vector3>
    faces,       \* PolygonMesh.faces : [tri, quad, other]
    panicked,    \* the panic that has ended the run, NoPanic while it is running
    pre,         \* the mesh as it was when the last operation was called
    call,        \* the last operation called and its arguments
    result       \* the value returned by the last curve operation

vars == <<positions, uv_coords, normals, faces, panicked, pre, call, result>>

----------------------------------------------------------------------------
(* Bounds of the model. *)

\* number of positions of an initial mesh
NumPos == 5
\* number of texture coordinates of an initial mesh
NumUV == 2
\* number of normals of an initial mesh
NumNor == 2
\* arity of the general polygon of an initial mesh
PolyLen == 5

----------------------------------------------------------------------------
(* Exact rationals. *)

RECURSIVE GCD(_, _)
GCD(a, b) == IF b = 0 THEN a ELSE GCD(b, a % b)

Abs(x) == IF x < 0 THEN -x ELSE x

\* the rational n/d in lowest terms with a positive denominator
Rat(n, d) ==
    LET g == GCD(Abs(n), Abs(d))
        s == IF d < 0 THEN -1 ELSE 1
    IN  <<s * (n \div g), s * (d \div g)>>

RInt(n) == <<n, 1>>
\* (over the least common denominator, to keep the integers small)
RAdd(a, b) ==
    LET g == GCD(a[2], b[2])
    IN  Rat(a[1] * (b[2] \div g) + b[1] * (a[2] \div g), (a[2] \div g) * b[2])
RNeg(a) == <<-a[1], a[2]>>
RSub(a, b) == RAdd(a, RNeg(b))
RMul(a, b) ==
    LET x == Rat(a[1], b[2])
        y == Rat(b[1], a[2])
    IN  <<x[1] * y[1], x[2] * y[2]>>
RDiv(a, b) == RMul(a, Rat(b[2], b[1]))
RLess(a, b) ==
    LET g == GCD(a[2], b[2])
    IN  a[1] * (b[2] \div g) < b[1] * (a[2] \div g)
RAbs(a) == <<Abs(a[1]), a[2]>>

----------------------------------------------------------------------------
(* Sequences. *)

\* the sequence f[1], ..., f[n] of a function f on 1..n, element by element
\* (what collect() makes of a mapped iterator)
RECURSIVE CollectN(_, _)
CollectN(f, n) == IF n = 0 THEN <<>> ELSE Append(CollectN(f, n - 1), f[n])

Vec(f) == CollectN(f, Cardinality(DOMAIN f))

----------------------------------------------------------------------------
(* Meshes. *)

\* Option::None of an optional index (Vertex.uv, Vertex.nor, old2new[i])
None == -1

Vtx(p, u, n) == [pos |-> p, uv |-> u, nor |-> n]

MkMesh(p, u, n, f) == [positions |-> p, uv_coords |-> u, normals |-> n, faces |-> f]

CurMesh == MkMesh(positions, uv_coords, normals, faces)

EmptyFaces == [tri |-> <<>>, quad |-> <<>>, other |-> <<>>]

\* Faces::push is code of truck-polymesh.  It stores a face by arity: three
\* vertices with the triangles, four with the quadrangles, more with the other
\* faces.  What it does with a face of fewer than three vertices is one of two
\* things: the face is ignored, or it is stored with the other faces.
ShortFaces == {"ignored", "stored"}

FacesPush(f, face, short) ==
    CASE Len(face) < 3 ->
            IF short = "stored" THEN [f EXCEPT !.other = Append(@, face)] ELSE f
      [] Len(face) = 3 -> [f EXCEPT !.tri = Append(@, face)]
      [] Len(face) = 4 -> [f EXCEPT !.quad = Append(@, face)]
      [] OTHER -> [f EXCEPT !.other = Append(@, face)]

RECURSIVE FacesExtend(_, _, _)
FacesExtend(f, fs, short) ==
    IF fs = <<>> THEN f ELSE FacesExtend(FacesPush(f, Head(fs), short), Tail(fs), short)

\* Faces::from_iter on faces of three or more vertices
FacesFromIter(fs) ==
    [tri   |-> SelectSeq(fs, LAMBDA x : Len(x) = 3),
     quad  |-> SelectSeq(fs, LAMBDA x : Len(x) = 4),
     other |-> SelectSeq(fs, LAMBDA x : Len(x) > 4)]

\* Faces::face_iter_mut: triangles, then quadrangles, then the other faces
FaceIter(f) == f.tri \o f.quad \o f.other

RECURSIVE Flatten(_)
Flatten(fs) == IF fs = <<>> THEN <<>> ELSE Head(fs) \o Flatten(Tail(fs))

RECURSIVE SumLen(_, _)
SumLen(fs, k) == IF k = 0 THEN 0 ELSE Len(fs[k]) + SumLen(fs, k - 1)

\* the faces f with their vertices replaced, in iteration order, by those of V
Unflatten(f, V) ==
    LET T == Len(f.tri)
        Q == Len(f.quad)
    IN  [tri   |-> Vec([i \in 1..T |-> SubSeq(V, 3 * (i - 1) + 1, 3 * i)]),
         quad  |-> Vec([i \in 1..Q |-> SubSeq(V, 3 * T + 4 * (i - 1) + 1, 3 * T + 4 * i)]),
         other |-> Vec([i \in 1..Len(f.other) |->
                       SubSeq(V, 3 * T + 4 * Q + SumLen(f.other, i - 1) + 1,
                                 3 * T + 4 * Q + SumLen(f.other, i))])]

Get(v, kind) ==
    CASE kind = "pos" -> v.pos
      [] kind = "uv" -> v.uv
      [] kind = "nor" -> v.nor

Put(v, kind, x) ==
    CASE kind = "pos" -> [v EXCEPT !.pos = x]
      [] kind = "uv" -> [v EXCEPT !.uv = x]
      [] kind = "nor" -> [v EXCEPT !.nor = x]

\* the indices of one kind that the vertices V hold, in order (filter_map)
RECURSIVE Collect(_, _)
Collect(V, kind) ==
    IF V = <<>> THEN <<>>
    ELSE (IF Get(Head(V), kind) # None THEN <<Get(Head(V), kind)>> ELSE <<>>)
         \o Collect(Tail(V), kind)

\* the vertices V with the indices of one kind overwritten, in order, by idxs
RECURSIVE Scatter(_, _, _)
Scatter(V, kind, idxs) ==
    IF V = <<>> THEN <<>>
    ELSE IF Get(Head(V), kind) # None
         THEN <<Put(Head(V), kind, Head(idxs))>> \o Scatter(Tail(V), kind, Tail(idxs))
         ELSE <<Head(V)>> \o Scatter(Tail(V), kind, idxs)

all_pos_mut(f) == Collect(Flatten(FaceIter(f)), "pos")
all_uv_mut(f) == Collect(Flatten(FaceIter(f)), "uv")
all_nor_mut(f) == Collect(Flatten(FaceIter(f)), "nor")

\* the faces f after an iterator of one kind has written idxs through its references
WriteAll(f, kind, idxs) == Unflatten(f, Scatter(Flatten(FaceIter(f)), kind, idxs))

\* how a call ends: it returns, or it panics on an index out of the bounds of
\* a Vec, or it panics in cast_int
NoPanic == "none"
IndexPanic == "index out of bounds"
CastPanic == "failed to cast"

----------------------------------------------------------------------------
(* remove_unused_attrs *)

RECURSIVE SubRemoveLoop(_, _, _, _)
SubRemoveLoop(idxs, k, new2old, old2new) ==
    IF k > Len(idxs)
    THEN [new2old |-> new2old, idxs |-> idxs, panic |-> FALSE]
    ELSE LET idx == idxs[k] IN
         IF idx \notin DOMAIN old2new
         THEN [new2old |-> new2old, idxs |-> idxs, panic |-> TRUE]
         ELSE IF old2new[idx] # None
         THEN SubRemoveLoop([idxs EXCEPT ![k] = old2new[idx]], k + 1, new2old, old2new)
         ELSE LET kk == Len(new2old) IN
              SubRemoveLoop([idxs EXCEPT ![k] = kk], k + 1,
                            Append(new2old, idx), [old2new EXCEPT ![idx] = kk])

\* sub_remove_unused_attrs never looking an index up in old2new: every
\* reference gets a slot of its own
sub_remove_unused_attrs_NoReuse(idxs, old_len) ==
    [new2old |-> idxs, idxs |-> Vec([k \in 1..Len(idxs) |-> k - 1]),
     panic |-> \E k \in 1..Len(idxs) : idxs[k] \notin 0..(old_len - 1)]

\* sub_remove_unused_attrs taking k = new2old.len() after the push
sub_remove_unused_attrs_LenAfterPush(idxs, old_len) ==
    LET r == SubRemoveLoop(idxs, 1, <<>>, [i \in 0..(old_len - 1) |-> None])
    IN  [r EXCEPT !.idxs = Vec([k \in 1..Len(r.idxs) |-> r.idxs[k] + 1])]

\* returns new2old, the rewritten indices, and whether old2new[*idx] panicked
sub_remove_unused_attrs(idxs, old_len) ==
    SubRemoveLoop(idxs, 1, <<>>, [i \in 0..(old_len - 1) |-> None])

\* idcs.iter().map(|i| attrs[*i]).collect()
Gather(attrs, idcs) == Vec([i \in 1..Len(idcs) |-> attrs[idcs[i] + 1]])

\* remove_unused_attrs compacting the arrays of a copy of the faces: the
\* indices of the mesh's own faces stay as they were
remove_unused_attrs_StaleFaces(m) ==
    LET rp == sub_remove_unused_attrs(all_pos_mut(m.faces), Len(m.positions))
        ru == sub_remove_unused_attrs(all_uv_mut(m.faces), Len(m.uv_coords))
        rn == sub_remove_unused_attrs(all_nor_mut(m.faces), Len(m.normals))
    IN  IF rp.panic \/ ru.panic \/ rn.panic
        THEN [mesh |-> m, panic |-> IndexPanic]
        ELSE [mesh |-> MkMesh(Gather(m.positions, rp.new2old),
                              Gather(m.uv_coords, ru.new2old),
                              Gather(m.normals, rn.new2old), m.faces),
              panic |-> NoPanic]

\* the three kinds are compacted one after the other: when old2new[*idx] panics,
\* the indices rewritten so far and the arrays already replaced stay in the mesh
remove_unused_attrs(m) ==
    LET rp == sub_remove_unused_attrs(all_pos_mut(m.faces), Len(m.positions))
        f1 == WriteAll(m.faces, "pos", rp.idxs)
        ru == sub_remove_unused_attrs(all_uv_mut(f1), Len(m.uv_coords))
        f2 == WriteAll(f1, "uv", ru.idxs)
        rn == sub_remove_unused_attrs(all_nor_mut(f2), Len(m.normals))
        f3 == WriteAll(f2, "nor", rn.idxs)
    IN  IF rp.panic
        THEN [mesh |-> [m EXCEPT !.faces = f1], panic |-> IndexPanic]
        ELSE IF ru.panic
        THEN [mesh |-> MkMesh(Gather(m.positions, rp.new2old), m.uv_coords, m.normals, f2),
              panic |-> IndexPanic]
        ELSE IF rn.panic
        THEN [mesh |-> MkMesh(Gather(m.positions, rp.new2old),
                              Gather(m.uv_coords, ru.new2old), m.normals, f3),
              panic |-> IndexPanic]
        ELSE [mesh |-> MkMesh(Gather(m.positions, rp.new2old),
                              Gather(m.uv_coords, ru.new2old),
                              Gather(m.normals, rn.new2old), f3),
              panic |-> NoPanic]

----------------------------------------------------------------------------
(* remove_degenerate_faces *)

\* degenerate_triangle without the comparison of the last vertex with the first
degenerate_triangle_TwoEdges(tri) ==
    tri[1].pos = tri[2].pos \/ tri[2].pos = tri[3].pos

degenerate_triangle(tri) ==
    tri[1].pos = tri[2].pos \/ tri[2].pos = tri[3].pos \/ tri[3].pos = tri[1].pos

\* degenerate_quadrangle with the two triangles exchanged
degenerate_quadrangle_Exchanged(quad) ==
    IF (quad[1].pos = quad[3].pos \/ quad[2].pos = quad[4].pos)
       \/ (quad[1].pos = quad[2].pos /\ quad[3].pos = quad[4].pos)
       \/ (quad[2].pos = quad[3].pos /\ quad[4].pos = quad[1].pos)
    THEN [type |-> "TotallyDegenerate", tri |-> <<>>]
    ELSE IF quad[1].pos = quad[2].pos \/ quad[2].pos = quad[3].pos
    THEN [type |-> "Triangle", tri |-> <<quad[1], quad[2], quad[3]>>]
    ELSE IF quad[3].pos = quad[4].pos \/ quad[4].pos = quad[1].pos
    THEN [type |-> "Triangle", tri |-> <<quad[1], quad[3], quad[4]>>]
    ELSE [type |-> "NonDegenerate", tri |-> <<>>]

degenerate_quadrangle(quad) ==
    IF (quad[1].pos = quad[3].pos \/ quad[2].pos = quad[4].pos)
       \/ (quad[1].pos = quad[2].pos /\ quad[3].pos = quad[4].pos)
       \/ (quad[2].pos = quad[3].pos /\ quad[4].pos = quad[1].pos)
    THEN [type |-> "TotallyDegenerate", tri |-> <<>>]
    ELSE IF quad[1].pos = quad[2].pos \/ quad[2].pos = quad[3].pos
    THEN [type |-> "Triangle", tri |-> <<quad[1], quad[3], quad[4]>>]
    ELSE IF quad[3].pos = quad[4].pos \/ quad[4].pos = quad[1].pos
    THEN [type |-> "Triangle", tri |-> <<quad[1], quad[2], quad[3]>>]
    ELSE [type |-> "NonDegenerate", tri |-> <<>>]

\* the pairs i < j (1-based) of vertices of poly with the same position index
SamePosPairs(poly) ==
    {ij \in (1..Len(poly)) \X (1..Len(poly)) :
        ij[1] < ij[2] /\ poly[ij[1]].pos = poly[ij[2]].pos}

\* the first such pair in the order of the two nested loops
FirstPair(poly) ==
    CHOOSE ij \in SamePosPairs(poly) :
        \A kl \in SamePosPairs(poly) :
            ij[1] < kl[1] \/ (ij[1] = kl[1] /\ ij[2] <= kl[2])

RECURSIVE split_into_nondegenerate(_)
split_into_nondegenerate(poly) ==
    IF SamePosPairs(poly) = {} THEN <<poly>>
    ELSE LET i == FirstPair(poly)[1] - 1
             j == FirstPair(poly)[2] - 1
             n == Len(poly)
             polygon0 == Vec([k \in 1..(j - i) |-> poly[(k - 1) + i + 1]])
             polygon1 == Vec([k \in 1..(n - (j - i)) |->
                                 poly[(((k - 1) + (j - i) + i) % n) + 1]])
         IN  split_into_nondegenerate(polygon0) \o split_into_nondegenerate(polygon1)

RECURSIVE PushTris(_, _, _)
PushTris(f, tris, short) ==
    IF tris = <<>> THEN f
    ELSE PushTris(IF ~degenerate_triangle(Head(tris))
                  THEN FacesPush(f, Head(tris), short) ELSE f,
                  Tail(tris), short)

RECURSIVE PushQuads(_, _, _)
PushQuads(f, quads, short) ==
    IF quads = <<>> THEN f
    ELSE LET q == degenerate_quadrangle(Head(quads)) IN
         PushQuads(CASE q.type = "TotallyDegenerate" -> f
                     [] q.type = "Triangle" -> FacesPush(f, q.tri, short)
                     [] q.type = "NonDegenerate" -> FacesPush(f, Head(quads), short),
                   Tail(quads), short)

\* faces.extend(split_into_nondegenerate(face.clone())): every sub-polygon is
\* handed to Faces::push, the ones of one or two vertices too
RECURSIVE PushOthers(_, _, _)
PushOthers(f, others, short) ==
    IF others = <<>> THEN f
    ELSE PushOthers(FacesExtend(f, split_into_nondegenerate(Head(others)), short),
                    Tail(others), short)

remove_degenerate_faces(m, short) ==
    [m EXCEPT !.faces =
        PushOthers(PushQuads(PushTris(EmptyFaces, m.faces.tri, short),
                             m.faces.quad, short),
                   m.faces.other, short)]

----------------------------------------------------------------------------
(* put_together_same_attrs *)

\* f64 -> i64 conversion of cast::<i64>(): the fraction is discarded, the
\* value n/d (d > 0) is rounded toward zero
TruncDiv(n, d) == IF n >= 0 THEN n \div d ELSE -((-n) \div d)

\* cast::<i64>() is None, and cast_int panics, when a component is not a value
\* of i64: here n/0, which stands for an infinity (n # 0) or a NaN (n = 0).
\* (Every other component of the model is far inside the range of i64.)
cast_int(v) ==
    IF \E a \in DOMAIN v : v[a][2] = 0
    THEN [panic |-> TRUE, key |-> <<>>]
    ELSE [panic |-> FALSE, key |-> Vec([a \in DOMAIN v |-> TruncDiv(v[a][1], v[a][2])])]

\* ((*attr).add_element_wise(tol) / (tol * 2.0)) for a vector of rationals:
\* with attr[a] = n/d and tol = t/u, (n/d + t/u) / (2t/u) = (n*u + t*d) / (2*t*d),
\* written with a denominator that is positive, or 0 when tol = 0
ScaleToCell(attr, tol) ==
    Vec([a \in DOMAIN attr |->
            LET n == attr[a][1] * tol[2] + tol[1] * attr[a][2]
                d == 2 * tol[1] * attr[a][2]
            IN  IF d < 0 THEN <<-n, -d>> ELSE <<n, d>>])

CellKey(attr, tol) == cast_int(ScaleToCell(attr, tol))

\* map.insert(v, i): the last index with the key replaces the first
EntryOrInsert_Overwrite(map, v, i) ==
    {e \in map : e[1] # v} \cup {<<v, i>>}

\* map.entry(v).or_insert(i) on a map held as a set of <<key, index>> pairs
EntryOrInsert(map, v, i) ==
    IF \E e \in map : e[1] = v THEN map ELSE map \cup {<<v, i>>}

MapGet(map, v) == (CHOOSE e \in map : e[1] = v)[2]

RECURSIVE SubPutLoop(_, _, _, _, _)
SubPutLoop(attrs, tol, i, res, map) ==
    IF i >= Len(attrs) THEN [res |-> res, panic |-> FALSE]
    ELSE LET c == CellKey(attrs[i + 1], tol) IN
         IF c.panic THEN [res |-> res, panic |-> TRUE]
         ELSE LET v == c.key
                  map1 == EntryOrInsert(map, v, i)
              IN  SubPutLoop(attrs, tol, i + 1, Append(res, MapGet(map1, v)), map1)

\* the remap: res[i + 1] is the index that attribute i is rewritten to; panic
\* when cast_int panicked on an attribute
sub_put_together_same_attrs(attrs, tol) == SubPutLoop(attrs, tol, 0, <<>>, {})

\* an attribute with integer coordinates as a vector of rationals
RVec(p) == Vec([a \in DOMAIN p |-> RInt(p[a])])

RawAttrs(attrs) == Vec([i \in 1..Len(attrs) |-> RVec(attrs[i])])

SetMin(S) == CHOOSE x \in S : \A y \in S : x <= y
SetMax(S) == CHOOSE x \in S : \A y \in S : x >= y

\* BoundingBox of the positions, per axis: <<min, max>>
BndBox(ps) ==
    Vec([a \in 1..3 |-> <<SetMin({ps[i][a] : i \in 1..Len(ps)}),
                          SetMax({ps[i][a] : i \in 1..Len(ps)})>>])

\* bnd_box.center(), per axis: (min + max) / 2
Center(bb) == Vec([a \in 1..3 |-> <<bb[a][1] + bb[a][2], 2>>])

\* bnd_box.diagonal().map(|a| f64::max(a.abs(), 1.0)), per axis
Diag(bb) ==
    Vec([a \in 1..3 |-> LET d == Abs(bb[a][2] - bb[a][1]) IN IF d > 1 THEN d ELSE 1])

\* 2.0 * (position - center).zip(diag, |a, b| a / b):
\* with center = c/2, 2 * ((p - c/2) / g) = 2 * (2*p - c) / (2*g)
NormalizedPositions(ps) ==
    IF ps = <<>> THEN <<>>
    ELSE LET bb == BndBox(ps)
             center == Center(bb)
             diag == Diag(bb)
         IN  Vec([i \in 1..Len(ps) |->
                Vec([a \in 1..3 |->
                    <<2 * (center[a][2] * ps[i][a] - center[a][1]),
                      center[a][2] * diag[a]>>])])

\* for_each(|idx| *idx = map[*idx]) over the indices of one kind: map[*idx]
\* panics at the first index out of range, the indices before it rewritten
RECURSIVE RemapLoop(_, _, _)
RemapLoop(idxs, map, k) ==
    IF k > Len(idxs) THEN [idxs |-> idxs, panic |-> FALSE]
    ELSE IF idxs[k] + 1 \notin DOMAIN map THEN [idxs |-> idxs, panic |-> TRUE]
    ELSE RemapLoop([idxs EXCEPT ![k] = map[idxs[k] + 1]], map, k + 1)

Remap(idxs, map) == RemapLoop(idxs, map, 1)

\* the three kinds are welded one after the other, the map of a kind built
\* just before its indices are rewritten: when cast_int or map[*idx] panics,
\* the indices rewritten so far stay in the mesh
put_together_same_attrs(m, tol) ==
    LET pos_map == sub_put_together_same_attrs(NormalizedPositions(m.positions), tol)
        rp == Remap(all_pos_mut(m.faces), pos_map.res)
        f1 == WriteAll(m.faces, "pos", rp.idxs)
        uv_map == sub_put_together_same_attrs(RawAttrs(m.uv_coords), tol)
        ru == Remap(all_uv_mut(f1), uv_map.res)
        f2 == WriteAll(f1, "uv", ru.idxs)
        nor_map == sub_put_together_same_attrs(RawAttrs(m.normals), tol)
        rn == Remap(all_nor_mut(f2), nor_map.res)
        f3 == WriteAll(f2, "nor", rn.idxs)
    IN  IF pos_map.panic THEN [mesh |-> m, panic |-> CastPanic]
        ELSE IF rp.panic THEN [mesh |-> [m EXCEPT !.faces = f1], panic |-> IndexPanic]
        ELSE IF uv_map.panic THEN [mesh |-> [m EXCEPT !.faces = f1], panic |-> CastPanic]
        ELSE IF ru.panic THEN [mesh |-> [m EXCEPT !.faces = f2], panic |-> IndexPanic]
        ELSE IF nor_map.panic THEN [mesh |-> [m EXCEPT !.faces = f2], panic |-> CastPanic]
        ELSE IF rn.panic THEN [mesh |-> [m EXCEPT !.faces = f3], panic |-> IndexPanic]
        ELSE [mesh |-> [m EXCEPT !.faces = f3], panic |-> NoPanic]

----------------------------------------------------------------------------
(* The meshes a run starts from.  Every one is well formed: each index a   *)
(* face holds is smaller than the length of the array it refers to.        *)

\* the welding tolerances tried, as rationals t/u with u > 0: tol is any f64,
\* so also 0 and a negative one
Tols == {<<1, 2>>, <<0, 1>>, <<-1, 2>>}

PosIdx == 0..(NumPos - 1)
UVIdx == 0..(NumUV - 1)
NorIdx == 0..(NumNor - 1)

\* pairwise distinct attribute values
BasePositions == Vec([i \in 1..NumPos |-> <<i - 1, (i - 1) % 2, 1 - i>>])
BaseUV == Vec([i \in 1..NumUV |-> <<i - 1, 1>>])
BaseNormals == Vec([i \in 1..NumNor |-> <<0, i - 1, 1>>])

\* attribute values among which welding finds equal and near ones
WeldPoints == {<<0, 0, 0>>, <<1, 0, 0>>, <<4, 0, 0>>, <<0, 4, 0>>}
UVPoints == {<<x, 0>> : x \in -2..1} \cup {<<0, -1>>}
NorPoints == {<<0, 0, 1>>, <<0, 0, -1>>, <<1, 0, 0>>, <<0, -2, 1>>}

\* a triangle on positions 1, 2, 3 that carries every kind of index
FixedTri == <<Vtx(1, 1 % NumUV, 1 % NumNor), Vtx(2, 2 % NumUV, 2 % NumNor),
              Vtx(3, 3 % NumUV, 3 % NumNor)>>

\* a face through every position, in order
RingFace == Vec([i \in 1..NumPos |-> Vtx(i - 1, (i - 1) % NumUV, (i - 1) % NumNor)])

PosOnly(ps) == Vec([k \in DOMAIN ps |-> Vtx(ps[k], None, None)])

\* the meshes of the documentation examples of the three filters
DocMeshes ==
    { MkMesh(<<<<0, 0, 0>>, <<1, 0, 0>>, <<0, 1, 0>>, <<0, 0, 1>>>>, <<>>, <<>>,
             FacesFromIter(<<PosOnly(<<1, 2, 3>>)>>)),
      MkMesh(<<<<0, 0, 0>>, <<1, 0, 0>>, <<0, 1, 0>>, <<0, 0, 1>>>>, <<>>, <<>>,
             FacesFromIter(
                 <<PosOnly(<<0, 1, 2>>), PosOnly(<<2, 1, 2>>), PosOnly(<<2, 1, 3>>)>>)),
      MkMesh(<<<<0, 0, 0>>, <<1, 0, 0>>, <<0, 1, 0>>,
               <<1, 1, 0>>, <<0, 1, 0>>, <<1, 0, 0>>>>, <<>>, <<>>,
             FacesFromIter(<<PosOnly(<<0, 1, 2>>), PosOnly(<<3, 4, 5>>)>>)) }

\* the vertex sequences whose position indices are numbered in order of first
\* appearance: one for each pattern of equal position indices
FirstAppearance(n) ==
    {p \in [1..n -> PosIdx] :
        /\ p[1] = 0
        /\ \A k \in 2..n : \E j \in 1..(k - 1) : p[k] <= p[j] + 1}

\* one free triangle, before the fixed triangle: its position indices free, ...
TriPosMeshes ==
    { MkMesh(BasePositions, BaseUV, BaseNormals,
             FacesFromIter(<<PosOnly(t), FixedTri>>)) :
        t \in [1..3 -> PosIdx] }

\* ... its texture indices free, ...
TriUVMeshes ==
    { MkMesh(BasePositions, BaseUV, BaseNormals,
             FacesFromIter(
                 <<Vec([k \in 1..3 |-> Vtx(k - 1, t[k], None)]), FixedTri>>)) :
        t \in [1..3 -> UVIdx \cup {None}] }

\* ... its normal indices free
TriNorMeshes ==
    { MkMesh(BasePositions, BaseUV, BaseNormals,
             FacesFromIter(
                 <<Vec([k \in 1..3 |-> Vtx(k - 1, None, t[k])]), FixedTri>>)) :
        t \in [1..3 -> NorIdx \cup {None}] }

\* one free quadrangle, its corner k carrying texture index k mod NumUV
QuadMeshes ==
    { MkMesh(BasePositions, BaseUV, BaseNormals,
             FacesFromIter(
                 <<FixedTri, Vec([k \in 1..4 |-> Vtx(q[k], (k - 1) % NumUV, None)])>>)) :
        q \in FirstAppearance(4) }

\* one free general polygon
PolyMeshes ==
    { MkMesh(BasePositions, BaseUV, BaseNormals,
             FacesFromIter(<<FixedTri, PosOnly(p)>>)) :
        p \in FirstAppearance(PolyLen) }

\* the ring face over free positions, over free texture coordinates, over free normals
WeldPosMeshes ==
    { MkMesh(ps, BaseUV, BaseNormals, FacesFromIter(<<RingFace>>)) :
        ps \in {q \in [1..NumPos -> WeldPoints] :
                   q[1] = <<0, 0, 0>> /\ q[2] = <<4, 0, 0>>} }

WeldUVMeshes ==
    { MkMesh(BasePositions, us, BaseNormals, FacesFromIter(<<RingFace>>)) :
        us \in [1..NumUV -> UVPoints] }

WeldNorMeshes ==
    { MkMesh(BasePositions, BaseUV, ns, FacesFromIter(<<RingFace>>)) :
        ns \in [1..NumNor -> NorPoints] }

\* the families of initial meshes
InitFamilies ==
    <<DocMeshes, TriPosMeshes, TriUVMeshes, TriNorMeshes, QuadMeshes, PolyMeshes,
      WeldPosMeshes, WeldUVMeshes, WeldNorMeshes>>

NoResult == [tag |-> "none"]

Init ==
    /\ \E k \in DOMAIN InitFamilies : \E m \in InitFamilies[k] :
        /\ positions = m.positions
        /\ uv_coords = m.uv_coords
        /\ normals = m.normals
        /\ faces = m.faces
        /\ pre = m
    /\ panicked = NoPanic
    /\ call = [op |-> "new", tol |-> <<0, 1>>]
    /\ result = NoResult

----------------------------------------------------------------------------
(* The filters as operations on the mesh. *)

SetMesh(r, c) ==
    /\ positions' = r.mesh.positions
    /\ uv_coords' = r.mesh.uv_coords
    /\ normals' = r.mesh.normals
    /\ faces' = r.mesh.faces
    /\ panicked' = r.panic
    /\ pre' = CurMesh
    /\ call' = c
    /\ UNCHANGED result

RemoveUnusedAttrs ==
    /\ panicked = NoPanic
    /\ \E r \in {remove_unused_attrs(CurMesh)} :
        SetMesh(r, [op |-> "remove_unused_attrs", tol |-> <<0, 1>>])

RemoveDegenerateFaces ==
    /\ panicked = NoPanic
    /\ \E short \in ShortFaces :
       \E r \in {[mesh |-> remove_degenerate_faces(CurMesh, short), panic |-> NoPanic]} :
        SetMesh(r, [op |-> "remove_degenerate_faces", tol |-> <<0, 1>>])

PutTogetherSameAttrs ==
    /\ panicked = NoPanic
    /\ \E tol \in Tols :
        \E r \in {put_together_same_attrs(CurMesh, tol)} :
            SetMesh(r, [op |-> "put_together_same_attrs", tol |-> tol])

Next == RemoveUnusedAttrs \/ RemoveDegenerateFaces \/ PutTogetherSameAttrs

Spec == Init /\ [][Next]_vars

----------------------------------------------------------------------------
(* Curves.  A curve is a polynomial of degree at most 2 with integer       *)
(* coefficient vectors, subs(t) = c0 + c1*t + c2*t^2, in the plane.        *)

VAdd(v, w) == <<RAdd(v[1], w[1]), RAdd(v[2], w[2])>>
VSub(v, w) == <<RSub(v[1], w[1]), RSub(v[2], w[2])>>
VScale(v, x) == <<RMul(v[1], x), RMul(v[2], x)>>
Dot(v, w) == RAdd(RMul(v[1], w[1]), RMul(v[2], w[2]))
Magnitude2(v) == Dot(v, v)

\* an integer vector as a vector of rationals
RPoint(p) == <<RInt(p[1]), RInt(p[2])>>

\* ParametricCurve::subs, der, der2
Subs(c, t) == VAdd(RPoint(c.c0), VAdd(VScale(RPoint(c.c1), t), VScale(RPoint(c.c2), RMul(t, t))))
Der(c, t) == VAdd(RPoint(c.c1), VScale(RPoint(c.c2), RMul(RInt(2), t)))
Der2(c, t) == VScale(RPoint(c.c2), RInt(2))

\* TOLERANCE = 1 / TolDenom
TolDenom == 1000000

CeilDiv(x, k) == (x + k - 1) \div k

\* x < TOLERANCE * y for rationals x, y >= 0, without forming x * TolDenom
LessTolTimes(x, y) == x[1] * y[2] < CeilDiv(y[1] * x[2], TolDenom)

\* Origin::so_small: the magnitude is below TOLERANCE
so_small(x) == LessTolTimes(RAbs(x), RInt(1))

\* Tolerance::near: the distance is below TOLERANCE, that is,
\* the squared distance q = n/d has n * TolDenom^2 < d
near(v, w) ==
    LET q == Magnitude2(VSub(v, w))
    IN  q[1] < CeilDiv(CeilDiv(q[2], TolDenom), TolDenom)

\* the square of f64::min(der.magnitude(), 1.0): the magnitude is a square
\* root, its square is rational
MinMagnitude1Squared(der) ==
    IF RLess(Magnitude2(der), RInt(1)) THEN Magnitude2(der) ELSE RInt(1)

\* x < TOLERANCE * dermag for a rational x >= 0 and dermag2 = dermag^2 <= 1:
\* false when x >= TOLERANCE, and otherwise the comparison of the squares
\* (x * TolDenom)^2 < dermag2
LessTolTimesRoot(x, dermag2) ==
    IF x[1] = 0 THEN dermag2[1] > 0
    ELSE IF x[1] >= CeilDiv(x[2], TolDenom) THEN FALSE
    ELSE LET g == Rat(x[1] * TolDenom, x[2]) IN RLess(RMul(g, g), dermag2)

NoneOpt == [some |-> FALSE, t |-> <<0, 1>>]
Some(t) == [some |-> TRUE, t |-> t]

RECURSIVE search_nearest_parameter(_, _, _, _)
search_nearest_parameter(curve, point, hint, trials) ==
    LET pt == Subs(curve, hint)
        der == Der(curve, hint)
        der2 == Der2(curve, hint)
        f == Dot(der, VSub(pt, point))
        fprime == RAdd(Dot(der2, VSub(pt, point)), Magnitude2(der))
        dermag2 == MinMagnitude1Squared(der)
    IN  IF LessTolTimesRoot(RAbs(f), dermag2) \/ so_small(fprime) THEN Some(hint)
        ELSE IF trials = 0 THEN NoneOpt
        ELSE search_nearest_parameter(curve, point, RSub(hint, RDiv(f, fprime)), trials - 1)

\* search_parameter handing on the nearest parameter without the distance check
search_parameter_Unchecked(curve, point, hint, trials) ==
    search_nearest_parameter(curve, point, hint, trials)

search_parameter(curve, point, hint, trials) ==
    LET r == search_nearest_parameter(curve, point, hint, trials)
    IN  IF ~r.some THEN NoneOpt
        ELSE IF near(point, Subs(curve, r.t)) THEN Some(r.t)
        ELSE NoneOpt

\* the iteration budget given to the searches
MaxTrials == 2

\* the depth to which parameter_division is followed
MaxDepth == 3

Poly2(c0, c1, c2) == [c0 |-> c0, c1 |-> c1, c2 |-> c2]

\* a line along the first axis, a slanted line, a curve with a turning point
\* (t^2, 0), and a curve that is a single point
Curves ==
    { Poly2(<<0, 0>>, <<1, 0>>, <<0, 0>>), Poly2(<<0, 1>>, <<3, 4>>, <<0, 0>>),
      Poly2(<<0, 0>>, <<0, 0>>, <<1, 0>>), Poly2(<<1, 1>>, <<0, 0>>, <<0, 0>>) }

Points == {<<0, 0>>, <<4, 0>>, <<-1, 0>>, <<1, 1>>, <<3, 5>>, <<2, 3>>, <<0, 1>>}

Hints == {RInt(-2), RInt(0), RInt(1), <<1, 2>>}

\* the searches start from every curve and point, except that the curve with a
\* second-degree term is searched for the points above its turning point only:
\* there the iterates t, 2t/3, 4t/9, ... keep small numerators and denominators
SearchCases ==
    {cp \in Curves \X Points : cp[1].c2 = <<0, 0>> \/ cp[2][1] = 0}

EmptyMesh == MkMesh(<<>>, <<>>, <<>>, EmptyFaces)

NoMesh ==
    /\ positions = <<>> /\ uv_coords = <<>> /\ normals = <<>> /\ faces = EmptyFaces
    /\ pre = EmptyMesh /\ panicked = NoPanic

InitSearch ==
    /\ NoMesh
    /\ \E cp \in SearchCases, h \in Hints, n \in 0..MaxTrials :
        call = [op |-> "args", curve |-> cp[1], point |-> RPoint(cp[2]), hint |-> h, trials |-> n]
    /\ result = NoResult

SearchNearestParameter ==
    /\ call.op = "args"
    /\ call' = [call EXCEPT !.op = "search_nearest_parameter"]
    /\ result' = search_nearest_parameter(call.curve, call.point, call.hint, call.trials)
    /\ UNCHANGED <<positions, uv_coords, normals, faces, panicked, pre>>

SearchParameter ==
    /\ call.op = "args"
    /\ call' = [call EXCEPT !.op = "search_parameter"]
    /\ result' = search_parameter(call.curve, call.point, call.hint, call.trials)
    /\ UNCHANGED <<positions, uv_coords, normals, faces, panicked, pre>>

NextSearch == SearchNearestParameter \/ SearchParameter

SpecSearch == InitSearch /\ [][NextSearch]_vars

----------------------------------------------------------------------------
(* parameter_division.  The jitter p is random and the curve arbitrary, so *)
(* the outcome of each flatness test is a free choice: splits is the set   *)
(* of calls whose test fails, a call being numbered 1 at the top and 2n,   *)
(* 2n + 1 for the left and right halves of call n.                         *)

RECURSIVE Pow2(_)
Pow2(n) == IF n = 0 THEN 1 ELSE 2 * Pow2(n - 1)

\* params.pop(): the sequence without its last element
Pop(q) == SubSeq(q, 1, Len(q) - 1)

\* A parameter is a positive f64 value <<e, k>> = 2^e * (1 + k * 2^-52), the k-th
\* value of the binade [2^e, 2^(e+1)): <<0, 0>> is 1.0, <<0, 1>> is the next
\* value 1.0000000000000002, <<1023, 0>> is 2^1023.  Inf is +infinity.
Inf == <<1024, 0>>

F64Less(a, b) == a[1] < b[1] \/ (a[1] = b[1] /\ a[2] < b[2])

\* s / 2 rounded to the nearest integer, a tie to the even one
RoundHalfEven(s) ==
    IF s % 2 = 0 THEN s \div 2
    ELSE IF ((s - 1) \div 2) % 2 = 0 THEN (s - 1) \div 2 ELSE (s + 1) \div 2

\* (range.0 + range.1) / 2.0 for two values of one binade, or +infinity.  The
\* sum of two values of a binade lies in the next binade, where the f64 values
\* are two units of k apart: the sum 2^(e+1) * (1 + (ka + kb) / 2 * 2^-52) is
\* rounded to the nearest of them, a tie to the even significand, and halving
\* it is exact.  In the last binade the sum overflows to +infinity, and so
\* does every sum with +infinity.  (The midpoint of a range is in the binade
\* of its ends or is +infinity, so no other pair of values is ever added.)
F64Mid(a, b) ==
    CASE a = Inf \/ b = Inf -> Inf
      [] a # Inf /\ b # Inf /\ a[1] = b[1] /\ a[1] = 1023 -> Inf
      [] a # Inf /\ b # Inf /\ a[1] = b[1] /\ a[1] < 1023 ->
            <<a[1], RoundHalfEven(a[2] + b[2])>>

\* a point with a coordinate that is not finite
NonFinite == <<Inf, Inf>>

\* curve.subs(t) of the curves of the division: polynomials of the place k of t
\* in its binade, (t * 2^-e - 1.0) * 2^52, which f64 computes exactly
SubsF64(curve, t) ==
    IF t = Inf THEN NonFinite ELSE Subs(curve, RInt(t[2]))

RECURSIVE parameter_division(_, _, _, _)

\* the call does not return: the recursion has no end, the stack overflows and
\* the process aborts
StackOverflow == [tag |-> "stack overflow"]

\* curve.subs(t).distance(mid) < tol on a range with an end that is +infinity:
\* t is +infinity, the point of the curve and the point of the chord are not
\* finite, the distance is NaN and the test is false.  The left half of such a
\* range is (range.0, +infinity) again, so the call recurses without end.
InfiniteEnd(range) == range[1] = Inf \/ range[2] = Inf

\* On every other range the outcome of the test is the free choice of splits.
\* The left half is divided before the right one: when it does not return,
\* the right one is never called.
sub_parameter_division(curve, range, ends, splits, node) ==
    IF InfiniteEnd(range) THEN StackOverflow
    ELSE IF node \notin splits
    THEN [params |-> <<range[1], range[2]>>, pts |-> <<ends[1], ends[2]>>]
    ELSE LET mid == F64Mid(range[1], range[2])
             left == parameter_division(curve, <<range[1], mid>>, splits, 2 * node)
             right == parameter_division(curve, <<mid, range[2]>>, splits, 2 * node + 1)
         IN  IF left = StackOverflow THEN StackOverflow
             ELSE IF right = StackOverflow THEN StackOverflow
             ELSE [params |-> Pop(left.params) \o right.params,
                   pts |-> Pop(left.pts) \o right.pts]

parameter_division(curve, range, splits, node) ==
    sub_parameter_division(curve, range,
        <<SubsF64(curve, range[1]), SubsF64(curve, range[2])>>, splits, node)

\* the sets of failing tests of the runs that return within MaxDepth levels
SplitSets ==
    {S \in SUBSET (1..(Pow2(MaxDepth) - 1)) : \A n \in S : n = 1 \/ (n \div 2) \in S}

\* ranges t0 < t1: eight values apart, neighbours, three apart, and in the
\* last binade
Ranges ==
    { <<<<0, 0>>, <<0, 8>>>>, <<<<0, 0>>, <<0, 1>>>>, <<<<0, 1>>, <<0, 4>>>>,
      <<<<1023, 0>>, <<1023, 8>>>> }

InitDivision ==
    /\ NoMesh
    /\ \E c \in Curves, r \in Ranges, S \in SplitSets :
        call = [op |-> "args", curve |-> c, range |-> r, splits |-> S]
    /\ result = NoResult

ParameterDivision ==
    /\ call.op = "args"
    /\ call' = [call EXCEPT !.op = "parameter_division"]
    /\ result' = parameter_division(call.curve, call.range, call.splits, 1)
    /\ UNCHANGED <<positions, uv_coords, normals, faces, panicked, pre>>

NextDivision == ParameterDivision

SpecDivision == InitDivision /\ [][NextDivision]_vars

----------------------------------------------------------------------------
(* Vocabulary of the properties of the mesh filters. *)

Kinds == {"pos", "uv", "nor"}

Attrs(m, kind) ==
    CASE kind = "pos" -> m.positions
      [] kind = "uv" -> m.uv_coords
      [] kind = "nor" -> m.normals

\* the indices of one kind held by the faces of m, in the order of the face scan
Refs(m, kind) == Collect(Flatten(FaceIter(m.faces)), kind)

Range(q) == {q[k] : k \in DOMAIN q}

\* the elements of q, each once, in order of first appearance
RECURSIVE FirstSeen(_)
FirstSeen(q) ==
    IF q = <<>> THEN <<>>
    ELSE LET r == FirstSeen(SubSeq(q, 1, Len(q) - 1))
             x == q[Len(q)]
         IN  IF x \in Range(r) THEN r ELSE Append(r, x)

\* the 0-based rank of x in the sequence q of distinct elements
RankIn(q, x) == (CHOOSE k \in DOMAIN q : q[k] = x) - 1

\* every index a face holds is in range of its attribute array
WellFormed(m) ==
    \A kind \in Kinds : \A x \in Range(Refs(m, kind)) : 0 <= x /\ x < Len(Attrs(m, kind))

\* the faces of f and g have the same arities and hold indices at the same places
SameShape(f, g) ==
    LET F == FaceIter(f)
        G == FaceIter(g)
    IN  /\ Len(f.tri) = Len(g.tri) /\ Len(f.quad) = Len(g.quad)
        /\ Len(f.other) = Len(g.other)
        /\ \A i \in DOMAIN F :
            /\ Len(F[i]) = Len(G[i])
            /\ \A k \in DOMAIN F[i] : \A kind \in Kinds :
                (Get(F[i][k], kind) = None) <=> (Get(G[i][k], kind) = None)

After(name) == call.op = name /\ panicked = NoPanic

DistinctPos(face) ==
    \A i, j \in DOMAIN face : i # j => face[i].pos # face[j].pos

----------------------------------------------------------------------------
(* C1: remove_unused_attrs replaces each attribute array by the values at   *)
(* the face-referenced indices, each once, in order of first appearance in  *)
(* the face scan, and rewrites each face index to the rank of its first     *)
(* appearance; so the new length is the number of distinct indices that     *)
(* were referenced, every slot is referenced, and every face vertex refers  *)
(* to the same value as before.                                             *)

\* (the sequences are bound by quantifiers over singleton sets, so that each is
\* computed once)
CompactedKind(kind) ==
    \A old \in {Refs(pre, kind)}, new \in {Refs(CurMesh, kind)} :
    \A seen \in {FirstSeen(Refs(pre, kind))} :
    \A oldA \in {Attrs(pre, kind)}, newA \in {Attrs(CurMesh, kind)} :
        /\ Len(newA) = Len(seen)
        /\ \A i \in DOMAIN seen : newA[i] = oldA[seen[i] + 1]
        /\ Len(new) = Len(old)
        /\ \A k \in DOMAIN old : new[k] = RankIn(seen, old[k])
        /\ Len(newA) = Cardinality(Range(old))
        /\ Range(new) = 0..(Len(newA) - 1)
        /\ \A k \in DOMAIN old : newA[new[k] + 1] = oldA[old[k] + 1]

C1_Compaction ==
    After("remove_unused_attrs") =>
        /\ SameShape(pre.faces, faces)
        /\ \A kind \in Kinds : CompactedKind(kind)

\* the documentation example: 4 positions, one face [1, 2, 3]
C1_Witness ==
    /\ After("remove_unused_attrs")
    /\ Len(pre.positions) = 4
    /\ pre.faces = FacesFromIter(<<PosOnly(<<1, 2, 3>>)>>)
    /\ Len(positions) = 3
    /\ faces = FacesFromIter(<<PosOnly(<<0, 1, 2>>)>>)

\* a compaction that drops slots and renumbers out of order, for every kind at once
C1_WitnessAllKinds ==
    /\ After("remove_unused_attrs")
    /\ \E k \in DOMAIN Refs(pre, "pos") : Refs(pre, "pos")[k] # Refs(CurMesh, "pos")[k]
    /\ Len(positions) < Len(pre.positions)
    /\ Refs(pre, "uv") # Refs(CurMesh, "uv")

(* C2: remove_unused_attrs is idempotent: applied to the mesh it has just  *)
(* produced it changes no attribute array and no face index.               *)
C2_Idempotent ==
    After("remove_unused_attrs") =>
        remove_unused_attrs(CurMesh) = [mesh |-> CurMesh, panic |-> NoPanic]

\* the mesh that the documentation example is compacted to (no run starts from
\* it: it has three positions) has been compacted once more
C2_Witness ==
    /\ After("remove_unused_attrs")
    /\ pre = CurMesh
    /\ positions = <<<<1, 0, 0>>, <<0, 1, 0>>, <<0, 0, 1>>>>
    /\ faces = FacesFromIter(<<PosOnly(<<0, 1, 2>>)>>)

(* C3: after remove_degenerate_faces no face has two vertices with the     *)
(* same position index; the triangles kept are exactly the triangles with  *)
(* three distinct position indices, unchanged and in order.                *)
KeptTris(m) == SelectSeq(m.faces.tri, LAMBDA t : Cardinality({t[1].pos, t[2].pos, t[3].pos}) = 3)

C3_NoRepeatedPosition ==
    After("remove_degenerate_faces") =>
        /\ \A face \in Range(FaceIter(faces)) : DistinctPos(face)
        /\ Len(faces.tri) >= Len(KeptTris(pre))
        /\ SubSeq(faces.tri, 1, Len(KeptTris(pre))) = KeptTris(pre)

\* the documentation example: the face [2, 1, 2] is removed
C3_Witness ==
    /\ After("remove_degenerate_faces")
    /\ pre.faces.tri = <<PosOnly(<<0, 1, 2>>), PosOnly(<<2, 1, 2>>), PosOnly(<<2, 1, 3>>)>>
    /\ faces.tri = <<PosOnly(<<0, 1, 2>>), PosOnly(<<2, 1, 3>>)>>

\* the polygon [0, 0, 1, 2, 3] was split into [0] and [0, 1, 2, 3], and
\* Faces::push has stored the face of one vertex
C3_WitnessShortStored ==
    /\ After("remove_degenerate_faces")
    /\ pre.faces.other = <<PosOnly(<<0, 0, 1, 2, 3>>)>>
    /\ faces.other = <<PosOnly(<<0>>)>>
    /\ faces.quad = <<PosOnly(<<0, 1, 2, 3>>)>>

\* ... or has ignored it
C3_WitnessShortIgnored ==
    /\ After("remove_degenerate_faces")
    /\ pre.faces.other = <<PosOnly(<<0, 0, 1, 2, 3>>)>>
    /\ faces.other = <<>>
    /\ faces.quad = <<PosOnly(<<0, 1, 2, 3>>)>>

(* C4: a quadrangle (v0, v1, v2, v3) is dropped if v0 = v2 or v1 = v3 or   *)
(* (v0 = v1 and v2 = v3) or (v1 = v2 and v3 = v0); otherwise replaced by   *)
(* the triangle (v0, v2, v3) if v0 = v1 or v1 = v2; otherwise by           *)
(* (v0, v1, v2) if v2 = v3 or v3 = v0; otherwise kept unchanged.           *)
QuadRule(q) ==
    LET v0 == q[1].pos
        v1 == q[2].pos
        v2 == q[3].pos
        v3 == q[4].pos
    IN  CASE v0 = v2 \/ v1 = v3 \/ (v0 = v1 /\ v2 = v3) \/ (v1 = v2 /\ v3 = v0) -> <<>>
          [] OTHER ->
             CASE v0 = v1 \/ v1 = v2 -> <<<<q[1], q[3], q[4]>>>>
               [] OTHER ->
                  CASE v2 = v3 \/ v3 = v0 -> <<<<q[1], q[2], q[3]>>>>
                    [] OTHER -> <<q>>

\* what the rule makes of the quadrangles of m, in order
RuleOutcomes(m) == Flatten(Vec([i \in DOMAIN m.faces.quad |-> QuadRule(m.faces.quad[i])]))

C4_QuadRule ==
    After("remove_degenerate_faces") =>
        LET out == RuleOutcomes(pre)
            tris == SelectSeq(out, LAMBDA x : Len(x) = 3)
            quads == SelectSeq(out, LAMBDA x : Len(x) = 4)
            nt == Len(KeptTris(pre))
        IN  /\ Len(faces.tri) >= nt + Len(tris)
            /\ SubSeq(faces.tri, nt + 1, nt + Len(tris)) = tris
            /\ Len(faces.quad) >= Len(quads)
            /\ SubSeq(faces.quad, 1, Len(quads)) = quads

\* the quadrangle [p, p, q, r] = [0, 0, 1, 2] has become the triangle [p, q, r]
C4_Witness ==
    /\ After("remove_degenerate_faces")
    /\ Len(pre.faces.quad) = 1
    /\ Vec([k \in 1..4 |-> pre.faces.quad[1][k].pos]) = <<0, 0, 1, 2>>
    /\ faces.quad = <<>>
    /\ Len(faces.tri) = 2
    /\ Vec([k \in 1..3 |-> faces.tri[2][k].pos]) = <<0, 1, 2>>

(* C5: put_together_same_attrs rewrites, for each kind independently,      *)
(* every face index i to the smallest index j whose value falls in the     *)
(* same quantization cell as value i; the arrays are left as they are.     *)
\* the values of one kind that are quantized: positions are normalized first
Quantized(m, kind) ==
    CASE kind = "pos" -> NormalizedPositions(m.positions)
      [] kind = "uv" -> RawAttrs(m.uv_coords)
      [] kind = "nor" -> RawAttrs(m.normals)

\* the cell keys of the values, in order
CellKeys(vals, tol) == Vec([i \in 1..Len(vals) |-> CellKey(vals[i], tol).key])

SameCell(keys, i, j) == keys[i + 1] = keys[j + 1]

\* the smallest index whose value shares the cell of value i
Representative(keys, i) ==
    CHOOSE j \in 0..i :
        /\ SameCell(keys, i, j)
        /\ \A h \in 0..(j - 1) : ~SameCell(keys, i, h)

WeldedKind(kind) ==
    \A old \in {Refs(pre, kind)}, new \in {Refs(CurMesh, kind)} :
    \A keys \in {CellKeys(Quantized(pre, kind), call.tol)} :
        /\ Len(new) = Len(old)
        /\ \A k \in DOMAIN old :
            /\ new[k] = Representative(keys, old[k])
            /\ new[k] <= old[k]
        /\ \A k, l \in DOMAIN old :
            SameCell(keys, old[k], old[l]) => new[k] = new[l]
        /\ \A k \in DOMAIN old :
            Representative(keys, new[k]) = new[k]

C5_Representative ==
    After("put_together_same_attrs") =>
        /\ positions = pre.positions /\ uv_coords = pre.uv_coords /\ normals = pre.normals
        /\ SameShape(pre.faces, faces)
        /\ \A kind \in Kinds : WeldedKind(kind)

\* the documentation example: the vertex with position 4 now has position 2
C5_Witness ==
    /\ After("put_together_same_attrs")
    /\ call.tol = <<1, 2>>
    /\ Len(pre.positions) = 6
    /\ pre.faces.tri[2][2] = Vtx(4, None, None)
    /\ faces.tri[2][2] = Vtx(2, None, None)
    /\ Len(positions) = 6

\* texture and normal indices are welded too
C5_WitnessOtherKinds ==
    /\ After("put_together_same_attrs")
    /\ \/ Refs(pre, "uv") # Refs(CurMesh, "uv")
       \/ Refs(pre, "nor") # Refs(CurMesh, "nor")

(* C8: from a well-formed mesh, after any sequence of the three filters    *)
(* the mesh is well formed and no call has failed with an index out of     *)
(* range.  (A call may end in the other panic, that of cast_int.)          *)
C8_WellFormed == panicked # IndexPanic /\ WellFormed(CurMesh)

\* a mesh whose ring face was welded, then split by remove_degenerate_faces
\* into a triangle and a rest, then compacted
C8_Witness ==
    /\ After("remove_unused_attrs")
    /\ Len(pre.positions) = NumPos
    /\ Range(pre.positions) \subseteq WeldPoints
    /\ Len(pre.faces.tri) > 0
    /\ Len(positions) < NumPos
    /\ WellFormed(CurMesh)

\* a welding with tolerance 0 has ended in the panic of cast_int, the mesh as
\* it was
C8_WitnessCastPanic ==
    /\ panicked = CastPanic
    /\ call.op = "put_together_same_attrs" /\ call.tol = <<0, 1>>
    /\ CurMesh = pre

(* C9: every sub-polygon that the splitting step of remove_degenerate_faces *)
(* emits for a general polygon has at least three vertices, no two of them  *)
(* with the same position index.                                            *)
C9_SimplePolygons ==
    After("remove_degenerate_faces") =>
        \A i \in DOMAIN pre.faces.other :
            \A sub \in Range(split_into_nondegenerate(pre.faces.other[i])) :
                Len(sub) >= 3 /\ DistinctPos(sub)

(* C10: the quantization puts an axis value v in the cell k with           *)
(* 2k*tol - tol <= v < 2k*tol + tol, for negative as for positive v, so    *)
(* two values with the same key differ by less than 2*tol on every axis.   *)
\* v = n/d lies in [2k*tol - tol, 2k*tol + tol), tol = t/u
InCell(v, k, tol) ==
    /\ (2 * k - 1) * tol[1] * v[2] <= v[1] * tol[2]
    /\ v[1] * tol[2] < (2 * k + 1) * tol[1] * v[2]

\* |v - w| < 2 * tol
CloserThan2Tol(v, w, tol) ==
    Abs(v[1] * w[2] - w[1] * v[2]) * tol[2] < 2 * tol[1] * v[2] * w[2]

C10_UniformCells ==
    (After("put_together_same_attrs") /\ call.tol[1] > 0) =>
        \A kind \in Kinds :
            LET vals == Quantized(pre, kind) IN
            /\ \A i \in DOMAIN vals : \A a \in DOMAIN vals[i] :
                InCell(vals[i][a], CellKey(vals[i], call.tol).key[a], call.tol)
            /\ \A i, j \in DOMAIN vals :
                CellKey(vals[i], call.tol).key = CellKey(vals[j], call.tol).key =>
                    \A a \in DOMAIN vals[i] :
                        CloserThan2Tol(vals[i][a], vals[j][a], call.tol)

----------------------------------------------------------------------------
(* C6: search_parameter returns a present t exactly when                   *)
(* search_nearest_parameter, given the same arguments, returns t and the   *)
(* curve point at t is within tolerance of the target point; otherwise it  *)
(* returns absent: in particular when the nearest-parameter search returns *)
(* absent, and when it converges to a t whose curve point is farther than  *)
(* tolerance from the target.                                              *)

\* the squared distance of the target point of the call from the curve point at t
Distance2(t) ==
    Magnitude2(VSub(call.point, Subs(call.curve, t)))

\* the squared distance q = n/d is below TOLERANCE^2 = 1 / TolDenom^2, that is,
\* n * TolDenom^2 <= d - 1
WithinTolerance(t) ==
    LET q == Distance2(t)
    IN  q[1] <= ((q[2] - 1) \div TolDenom) \div TolDenom

NearestOfCall ==
    search_nearest_parameter(call.curve, call.point, call.hint, call.trials)

C6_FilteredByNear ==
    call.op = "search_parameter" =>
        LET r == NearestOfCall IN
        /\ result.some <=> (r.some /\ WithinTolerance(r.t))
        /\ result.some => result.t = r.t
        /\ ~r.some => result = NoneOpt
        /\ (r.some /\ ~WithinTolerance(r.t)) => result = NoneOpt

\* the nearest-parameter search converged after at least one step to a
\* parameter whose curve point is away from the target, and search_parameter
\* returned absent
C6_Witness ==
    /\ call.op = "search_parameter"
    /\ NearestOfCall.some
    /\ NearestOfCall.t # call.hint
    /\ Distance2(NearestOfCall.t)[1] > 0
    /\ result = NoneOpt

\* search_parameter returned the parameter found after at least one step
C6_WitnessPresent ==
    /\ call.op = "search_parameter"
    /\ result.some
    /\ result.t # call.hint

\* the nearest-parameter search ran out of trials
C6_WitnessAbsent ==
    /\ call.op = "search_parameter"
    /\ call.trials > 0
    /\ ~NearestOfCall.some

----------------------------------------------------------------------------
(* C7: for t0 < t1, whatever the outcomes of the flatness tests, whenever   *)
(* parameter_division returns, the two lists it returns have the same      *)
(* length, at least 2; the parameters are strictly ascending, the first is *)
(* t0 and the last is t1; and the midpoint of every range that was split   *)
(* appears exactly once.                                                   *)

\* the range of call n: the whole range for call 1, the left half of the range
\* of call n \div 2 for even n and its right half for odd n
RECURSIVE NodeRange(_, _)
NodeRange(range, n) ==
    IF n = 1 THEN range
    ELSE LET up == NodeRange(range, n \div 2)
             mid == F64Mid(up[1], up[2])
         IN  IF n % 2 = 0 THEN <<up[1], mid>> ELSE <<mid, up[2]>>

Midpoint(range, n) ==
    LET r == NodeRange(range, n) IN F64Mid(r[1], r[2])

Occurrences(q, x) == Cardinality({k \in DOMAIN q : q[k] = x})

C7_Division ==
    (call.op = "parameter_division" /\ result # StackOverflow) =>
        LET params == result.params
            pts == result.pts
        IN  /\ Len(params) = Len(pts)
            /\ Len(params) >= 2
            /\ \A k \in 1..(Len(params) - 1) : F64Less(params[k], params[k + 1])
            /\ params[1] = call.range[1]
            /\ params[Len(params)] = call.range[2]
            /\ \A n \in call.splits : Occurrences(params, Midpoint(call.range, n)) = 1

====
